---- MODULE Spec2Model ----
(***************************************************************************)
(* A model of kac_drumset's PoissonModel sampler (a linear model of a      *)
(* unit-area rectangular membrane) and of the AudioSampler base class it   *)
(* inherits from, under the specification Spec; of the shapes Ellipse and  *)
(* Circle of kac_drumset's geometry, under SpecEllipse; of the             *)
(* TorchDataset, under SpecDataset; of the project's loadDataset and       *)
(* generateDataset, under SpecLoad; and of the export of a waveform to a   *)
(* .wav file, under SpecExport.                                            *)
(*                                                                         *)
(* Real numbers are fixed-point integers in thousandths (1000 stands for   *)
(* 1.0).  A float that can be infinite or NaN (decay_time, decay, the      *)
(* waveform samples) is a record [t, v] with t in {"fin", "inf", "nan"}.   *)
(* Angles are in thousandths of a half turn (1000 stands for pi).          *)
(* The object is a function from the names of the attributes it has to     *)
(* their values, so hasattr(self, 'L') is "L" \in DOMAIN self.             *)
(***************************************************************************)
EXTENDS Integers, Sequences, FiniteSets, TLC

VARIABLES
    self,       \* the object (a sampler or a shape): attribute name -> value; empty when none exists
    ret,        \* the last call: [op, arg, exc, val]
    loopNext,   \* n when the updateProperties calls so far were exactly 0, 1, .., n-1; else -1
    sizeAge,    \* while loopNext >= 0: updateProperties calls since the last resampling of L
    resampled,  \* updateProperties has been called with None or a multiple of 5
    generated,  \* generateWaveform has been called
    stored,     \* __setitem__ has been called on the dataset
    files       \* the files on disk: path -> contents

vars == <<self, ret, loopNext, sizeAge, resampled, generated, stored, files>>

history == <<loopNext, sizeAge, resampled, generated, stored>>

-----------------------------------------------------------------------------
(* Bounds of the model. *)

MaxModes == 2       \* M and N passed to the constructor
MaxIndex == 5       \* largest index passed to updateProperties
MaxGrid == 6        \* largest grid_size passed to draw
MaxRatio == 4       \* largest major / minor of an ellipse whose area is set
MaxSize == 2        \* largest dataset_size of a TorchDataset

-----------------------------------------------------------------------------
(* Fixed-point and IEEE-754 helpers. *)

Abs(x) == IF x < 0 THEN -x ELSE x

Sign(x) == IF x < 0 THEN -1 ELSE 1

SeqMax(s) == CHOOSE x \in {s[j] : j \in DOMAIN s} : \A y \in {s[j] : j \in DOMAIN s} : y <= x

RECURSIVE SeqSum(_)
SeqSum(s) == IF s = <<>> THEN 0 ELSE Head(s) + SeqSum(Tail(s))

\* a power of two that is at least the square root of n
SqrtGuess(n) ==
    IF n < 65536 THEN 256
    ELSE IF n < 262144 THEN 512
    ELSE IF n < 1048576 THEN 1024
    ELSE IF n < 4194304 THEN 2048
    ELSE IF n < 16777216 THEN 4096
    ELSE IF n < 67108864 THEN 8192
    ELSE IF n < 268435456 THEN 16384
    ELSE 46340

\* Newton's iteration downwards from x >= sqrt(n), for n >= 1
RECURSIVE SqrtNewton(_, _)
SqrtNewton(n, x) ==
    LET y == (x + n \div x) \div 2
    IN  IF y >= x THEN x ELSE SqrtNewton(n, y)

\* floor of the square root of a natural number
ISqrt(n) == IF n = 0 THEN 0 ELSE SqrtNewton(n, SqrtGuess(n))

\* x ** 0.5 in thousandths, for 0 <= x <= 2000000 in thousandths
Pow05(x) == ISqrt(x * 1000)

\* a * b and a / b in thousandths, rounded toward zero
MulFx(a, b) == Sign(a * b) * (Abs(a * b) \div 1000)

DivFx(a, b) == Sign(a) * Sign(b) * ((Abs(a) * 1000) \div Abs(b))

\* a / n in thousandths for an integer n, rounded toward zero
DivInt(a, n) == Sign(a) * Sign(n) * (Abs(a) \div Abs(n))

\* a slip: int(x), which drops the fraction of a positive x
CeilTruncated(x) == Sign(x) * (Abs(x) \div 1000)

\* math.ceil(x) for x in thousandths
Ceil(x) == -((-x) \div 1000)

Fin(v) == [t |-> "fin", v |-> v]
NaN == [t |-> "nan", v |-> 0]
PosInf == [t |-> "inf", v |-> 1]
NegInf == [t |-> "inf", v |-> -1]

\* numpy's float64 division x / y of a finite x: no exception, IEEE results
FloatDiv(x, y) ==
    CASE y.t = "nan" -> NaN
      [] y.t = "inf" -> Fin(0)
      [] y.v = 0 -> IF x = 0 THEN NaN ELSE IF x < 0 THEN NegInf ELSE PosInf
      [] OTHER -> Fin(DivFx(x, y.v))

\* i * f for an integer i >= 0 and a float f
FloatTimesInt(i, f) ==
    CASE f.t = "nan" -> NaN
      [] f.t = "inf" -> IF i = 0 THEN NaN ELSE f
      [] OTHER -> Fin(i * f.v)

\* np.exp on thousandths: exp(0) = 1, decreasing to 0 for negative arguments
ExpFx(x) ==
    IF x <= 0 THEN 1000000 \div (1000 + (-x) + ((-x) * (-x)) \div 2000)
    ELSE 1000 + x + (x * x) \div 2000

Exp(f) ==
    CASE f.t = "nan" -> NaN
      [] f.t = "inf" -> IF f.v < 0 THEN Fin(0) ELSE PosInf
      [] OTHER -> Fin(ExpFx(f.v))

\* np.sin of an angle in thousandths of a half turn (Bhaskara's approximation,
\* exact at 0, pi/6, pi/2, 5pi/6 and pi)
Sin(p) ==
    LET r == p % 2000
        h == IF r < 1000 THEN r ELSE r - 1000
        q == h * (1000 - h)
        s == (16 * q) \div ((5000000 - 4 * q) \div 1000)
    IN  IF r < 1000 THEN s ELSE -s

\* random.uniform(a, b) = a + (b - a) * random(), with u the value of random()
Uniform(a, b, u) == a + ((b - a) * u) \div 1000

\* values of random.random(), which lies in [0.0, 1.0)
UnitDraws == {0, 750}

-----------------------------------------------------------------------------
(* Python objects. *)

NoObject == [a \in {} |-> 0]

hasattr(obj, name) == name \in DOMAIN obj

SetAttrs(obj, new) == new @@ obj

\* an empty folder
NoFiles == [path \in {} |-> 0]

\* Optional[int]: <<>> is None, <<i>> is the integer i
None == <<>>
Some(i) == <<i>>

-----------------------------------------------------------------------------
(* physics/modes.py: the eigenmodes of a rectangle of aspect ratio epsilon.  *)
(* A 2D array of N rows and M columns is the sequence of its rows, so that   *)
(* entry j of the flattened array is row ModeN(j, M), column ModeM(j, M).    *)

ModeN(j, M) == ((j - 1) \div M) + 1

ModeM(j, M) == ((j - 1) % M) + 1

\* z_nm = (m^2 / epsilon + epsilon * n^2) ** 0.5
calculateRectangularSeries(N, M, epsilon) ==
    [j \in 1..(N * M) |->
        Pow05(DivFx(ModeM(j, M) * ModeM(j, M) * 1000, epsilon)
              + epsilon * ModeN(j, M) * ModeN(j, M))]

\* sin(m pi x / epsilon^0.5) * sin(n pi y * epsilon^0.5) at the strike p = (x, y)
calculateRectangularAmplitudes(p, N, M, epsilon) ==
    LET root == Pow05(epsilon)
    IN  [j \in 1..(N * M) |->
            MulFx(Sin(DivFx(ModeM(j, M) * p[1], root)), Sin(MulFx(ModeN(j, M) * p[2], root)))]

-----------------------------------------------------------------------------
(* The results of a call. *)

NoValue == <<>>

EmptyLabels == [name \in {} |-> <<>>]

Returned(op, arg, val) == [op |-> op, arg |-> arg, exc |-> "none", val |-> val]

Raised(op, arg, exc) == [op |-> op, arg |-> arg, exc |-> exc, val |-> NoValue]

-----------------------------------------------------------------------------
(* AudioSampler.__init__ and PoissonModel.__init__. *)

\* np.zeros(length)
Zeros(length) == [i \in 1..length |-> Fin(0)]

\* the attributes AudioSampler.__init__ sets
AudioSamplerInit(duration, sample_rate) ==
    [duration |-> duration,
     sample_rate |-> sample_rate,
     length |-> Ceil(duration * sample_rate),
     waveform |-> Zeros(Ceil(duration * sample_rate))]

\* a slip: the ratio of the decay time and the sample interval inverted
DecayConstantInverted(k, d_60) ==
    IF d_60.t = "fin" THEN Fin(DivFx(-1 * d_60.v, MulFx(k * 6, 2303)))
    ELSE [t |-> d_60.t, v |-> -1 * d_60.v]

\* the decay constant inferred from the decay time
DecayConstant(k, d_60) == FloatDiv(MulFx(-1 * k * 6, 2303), d_60)

\* the attributes PoissonModel.__init__ adds
PoissonModelInit(sample_rate, amplitude, decay_time, M, material_density, N, tension) ==
    [a |-> amplitude,
     d_60 |-> decay_time,
     M |-> M,
     N |-> N,
     p |-> material_density,
     t |-> tension,
     c |-> Pow05(DivFx(tension, material_density)),
     k |-> DivInt(1000, sample_rate),
     decay |-> DecayConstant(DivInt(1000, sample_rate), decay_time)]

\* PoissonModel(duration, sample_rate, amplitude, decay_time, M, material_density, N, tension)
Construct(duration, sample_rate, amplitude, decay_time, M, material_density, N, tension) ==
    /\ ret.op = "none"
    /\ IF Ceil(duration * sample_rate) < 0
       THEN \* np.zeros: negative dimensions are not allowed
            /\ ret' = Raised("__init__", None, "ValueError")
            /\ UNCHANGED <<self, history, files>>
       ELSE IF material_density = 0 \/ sample_rate = 0
       THEN \* float division by zero
            /\ ret' = Raised("__init__", None, "ZeroDivisionError")
            /\ UNCHANGED <<self, history, files>>
       ELSE /\ self' = SetAttrs(AudioSamplerInit(duration, sample_rate),
                                PoissonModelInit(sample_rate, amplitude, decay_time, M,
                                                 material_density, N, tension))
            /\ ret' = Returned("__init__", None, NoValue)
            /\ UNCHANGED <<history, files>>

-----------------------------------------------------------------------------
(* PoissonModel.generateWaveform *)

\* A = a * |amplitudes at the strike|, flattened
WaveAmplitudes(obj) ==
    LET amps == calculateRectangularAmplitudes(obj.strike, obj.N, obj.M, obj.epsilon)
    IN  [j \in DOMAIN amps |-> MulFx(obj.a, Abs(amps[j]))]

\* omega = gamma * series * 2 pi k, the rate of phase of every mode
WaveOmega(obj) ==
    [j \in DOMAIN obj.series |-> MulFx(MulFx(MulFx(obj.gamma, obj.series[j]), 2000), obj.k)]

\* np.sum(A * np.exp(i * decay) * np.sin(i * omega)) / (omega.shape[0] * np.max(A));
\* decay is finite for every decay_time other than 0, so the envelope is finite
WaveSample(obj, i) ==
    LET A == WaveAmplitudes(obj)
        omega == WaveOmega(obj)
        envelope == Exp(FloatTimesInt(i, obj.decay))
        terms == [j \in DOMAIN A |-> MulFx(MulFx(A[j], envelope.v), Sin(i * omega[j]))]
    IN  IF envelope.t # "fin" THEN NaN
        ELSE FloatDiv(SeqSum(terms), Fin(Len(omega) * SeqMax(A)))

\* a slip: testing an attribute the constructor sets
WaveformReadyOnConstruction(obj) == hasattr(obj, "waveform")

\* hasattr(self, 'L'), the test generateWaveform makes
WaveformReady(obj) == hasattr(obj, "L")

\* a slip: the new samples appended to the samples the waveform holds
generateWaveformAppending ==
    /\ DOMAIN self # {}
    /\ IF ~WaveformReady(self)
       THEN /\ ret' = Returned("generateWaveform", None, NoValue)
            /\ UNCHANGED self
       ELSE IF ~({"strike", "epsilon", "gamma", "series"} \subseteq DOMAIN self)
       THEN /\ ret' = Raised("generateWaveform", None, "AttributeError")
            /\ UNCHANGED self
       ELSE /\ self' = SetAttrs(self,
                    [waveform |-> self.waveform
                                    \o [i \in 1..self.length |-> WaveSample(self, i - 1)]])
            /\ ret' = Returned("generateWaveform", None, NoValue)
    /\ generated' = TRUE
    /\ UNCHANGED <<loopNext, sizeAge, resampled, stored, files>>

\* a slip: omega computed in place, in the array of the series
generateWaveformInPlace ==
    /\ DOMAIN self # {}
    /\ IF ~WaveformReady(self)
       THEN /\ ret' = Returned("generateWaveform", None, NoValue)
            /\ UNCHANGED self
       ELSE IF ~({"strike", "epsilon", "gamma", "series"} \subseteq DOMAIN self)
       THEN /\ ret' = Raised("generateWaveform", None, "AttributeError")
            /\ UNCHANGED self
       ELSE /\ self' = SetAttrs(self,
                    [waveform |-> [i \in 1..self.length |-> WaveSample(self, i - 1)],
                     series |-> WaveOmega(self)])
            /\ ret' = Returned("generateWaveform", None, NoValue)
    /\ generated' = TRUE
    /\ UNCHANGED <<loopNext, sizeAge, resampled, stored, files>>

generateWaveform ==
    /\ DOMAIN self # {}
    /\ IF ~WaveformReady(self)
       THEN /\ ret' = Returned("generateWaveform", None, NoValue)
            /\ UNCHANGED self
       ELSE IF ~({"strike", "epsilon", "gamma", "series"} \subseteq DOMAIN self)
       THEN /\ ret' = Raised("generateWaveform", None, "AttributeError")
            /\ UNCHANGED self
       ELSE /\ self' = SetAttrs(self,
                    [waveform |-> [i \in 1..self.length |-> WaveSample(self, i - 1)]])
            /\ ret' = Returned("generateWaveform", None, NoValue)
    /\ generated' = TRUE
    /\ UNCHANGED <<loopNext, sizeAge, resampled, stored, files>>

-----------------------------------------------------------------------------
(* PoissonModel.getLabels *)

\* a slip: testing an attribute the constructor sets
LabelsReadyOnConstruction(obj) == hasattr(obj, "a")

\* a slip: labels only once a waveform has been written
LabelsReadyAfterWaveform(obj) == hasattr(obj, "L") /\ obj.waveform # Zeros(obj.length)

\* hasattr(self, 'L'), the test getLabels makes
LabelsReady(obj) == hasattr(obj, "L")

Labels(obj) ==
    [name \in {"aspect_ratio", "drum_size", "strike_location"} |->
        CASE name = "aspect_ratio" -> <<obj.epsilon>>
          [] name = "drum_size" -> <<obj.L>>
          [] OTHER -> obj.strike]

getLabels ==
    /\ DOMAIN self # {}
    /\ ret' = IF ~LabelsReady(self)
              THEN Returned("getLabels", None, EmptyLabels)
              ELSE IF ~({"epsilon", "L", "strike"} \subseteq DOMAIN self)
              THEN Raised("getLabels", None, "AttributeError")
              ELSE Returned("getLabels", None, Labels(self))
    /\ UNCHANGED <<self, history, files>>

-----------------------------------------------------------------------------
(* PoissonModel.updateProperties *)

\* a slip: the size resampled every fourth sample
ResamplesEveryFourth(i) == i = None \/ i[1] % 4 = 0

\* i is None or i % 5 == 0
Resamples(i) == i = None \/ i[1] % 5 = 0

\* a slip: a new drum size that keeps the strike the sampler already has
ResampledSizeKeepingStrike(obj, epsilon, L) ==
    [epsilon |-> epsilon,
     L |-> L,
     gamma |-> DivFx(obj.c, L),
     series |-> calculateRectangularSeries(obj.N, obj.M, epsilon),
     strike |-> IF hasattr(obj, "strike") THEN obj.strike
                ELSE <<MulFx(500, Pow05(epsilon)), DivFx(500, Pow05(epsilon))>>]

\* a random drum size, with the strike in the centroid of the drum
ResampledSize(obj, epsilon, L) ==
    [epsilon |-> epsilon,
     L |-> L,
     gamma |-> DivFx(obj.c, L),
     series |-> calculateRectangularSeries(obj.N, obj.M, epsilon),
     strike |-> <<MulFx(500, Pow05(epsilon)), DivFx(500, Pow05(epsilon))>>]

\* a slip: the drum size redrawn together with the strike
ResampledStrikeAndSize(obj, u, v) ==
    [strike |-> <<Uniform(0, Pow05(obj.epsilon), u),
                  Uniform(0, DivFx(1000, Pow05(obj.epsilon)), v)>>,
     L |-> Uniform(100, 2000, v)]

\* a random strike location
ResampledStrike(obj, u, v) ==
    [strike |-> <<Uniform(0, Pow05(obj.epsilon), u),
                  Uniform(0, DivFx(1000, Pow05(obj.epsilon)), v)>>]

\* u and v are the two values random() returns during the call
updateProperties(i, u, v) ==
    /\ DOMAIN self # {}
    /\ IF Resamples(i)
       THEN /\ self' = SetAttrs(self,
                    ResampledSize(self, Uniform(250, 4000, u), Uniform(100, 2000, v)))
            /\ ret' = Returned("updateProperties", i, NoValue)
       ELSE IF ~hasattr(self, "epsilon")
       THEN /\ ret' = Raised("updateProperties", i, "AttributeError")
            /\ UNCHANGED self
       ELSE /\ self' = SetAttrs(self, ResampledStrike(self, u, v))
            /\ ret' = Returned("updateProperties", i, NoValue)
    /\ loopNext' = IF loopNext >= 0 /\ i = Some(loopNext) THEN loopNext + 1 ELSE -1
    /\ sizeAge' = IF loopNext' < 0 THEN 0 ELSE IF Resamples(i) THEN 1 ELSE sizeAge + 1
    /\ resampled' = (resampled \/ i = None \/ i[1] % 5 = 0)
    /\ UNCHANGED <<generated, stored, files>>

-----------------------------------------------------------------------------
(* The specification: one sampler is constructed and then used.  The        *)
(* durations are -0.001, 0, 1.25 and 1.5 seconds at sample rates of -2, 0   *)
(* and 2, which gives every outcome of the constructor, a number of samples *)
(* that is no integer (2.5) and waveforms of at most 3 samples; tension and *)
(* density give a wavespeed of 1 m/s, so that the eigenfrequencies are of   *)
(* the order of the sample rate.                                            *)

Durations == {-1, 0, 1250, 1500}

SampleRates == {-2, 0, 2}

Amplitudes == {0, 100, 1000}

DecayTimes == {Fin(2000), PosInf}

Densities == {200}

Tensions == {200}

Indices == {None} \cup {Some(i) : i \in {-5} \cup 0..MaxIndex}

Init ==
    /\ self = NoObject
    /\ ret = [op |-> "none", arg |-> None, exc |-> "none", val |-> NoValue]
    /\ loopNext = 0
    /\ sizeAge = 0
    /\ resampled = FALSE
    /\ generated = FALSE
    /\ stored = FALSE
    /\ files = NoFiles

Next ==
    \/ \E duration \in Durations, sample_rate \in SampleRates, amplitude \in Amplitudes,
          decay_time \in DecayTimes, material_density \in Densities, tension \in Tensions :
            Construct(duration, sample_rate, amplitude, decay_time, MaxModes,
                      material_density, MaxModes, tension)
    \/ \E i \in Indices, u \in UnitDraws, v \in UnitDraws : updateProperties(i, u, v)
    \/ generateWaveform
    \/ getLabels

Spec == Init /\ [][Next]_vars

-----------------------------------------------------------------------------
(* Properties of PoissonModel. *)

Constructed == DOMAIN self # {}

\* the sampler was constructed from a positive duration and a positive sample rate
ValidSettings == Constructed /\ self.duration > 0 /\ self.sample_rate > 0

\* valid settings with the default amplitude of 1.
DefaultSettings == ValidSettings /\ self.a = 1000

\* the last call was updateProperties(i) with i None or a multiple of 5
AfterSizeCall ==
    /\ ret.op = "updateProperties"
    /\ (ret.arg = None \/ ret.arg[1] % 5 = 0)

\* the last call was updateProperties(i) with i an integer that is no multiple of 5
AfterStrikeCall ==
    /\ ret.op = "updateProperties"
    /\ ret.arg # None
    /\ ret.arg[1] % 5 # 0

\* C1: on a sampler on which updateProperties has never been called, getLabels
\* returns the empty mapping and does not raise, whatever calls of generateWaveform
\* and getLabels came before.
C1_LabelsEmptyBeforeUpdate ==
    (ret.op = "getLabels" /\ loopNext = 0) => (ret.exc = "none" /\ ret.val = EmptyLabels)

C1_Witness ==
    /\ ValidSettings
    /\ ret.op = "getLabels"
    /\ loopNext = 0
    /\ generated
    /\ ret.val = EmptyLabels

\* C2: generateWaveform on a sampler on which updateProperties has never been called
\* does not raise and leaves the waveform the array of `length` zeros.
C2_GenerateBeforeUpdateIsNoOp ==
    (ret.op = "generateWaveform" /\ loopNext = 0) =>
        (ret.exc = "none" /\ self.waveform = Zeros(self.length))

C2_Witness ==
    /\ ret.op = "generateWaveform"
    /\ loopNext = 0
    /\ self.length = 3
    /\ self.waveform = Zeros(3)

\* C3 (as claimed): every updateProperties(i) call on a sampler with valid settings,
\* the first one on a fresh sampler included and whatever i is, completes without
\* error and leaves L, epsilon, the series and the strike defined.
C3_UpdateAlwaysDefines ==
    (DefaultSettings /\ ret.op = "updateProperties") =>
        (ret.exc = "none" /\ {"L", "epsilon", "series", "strike"} \subseteq DOMAIN self)

\* C4: after updateProperties(i) with i None or a multiple of 5, epsilon lies in
\* [0.25, 4], L in [0.1, 2], gamma = c / L with c = (t / p) ** 0.5, the series is the
\* one of the new epsilon and the strike is the centroid of the rectangle; and in the
\* loop updateProperties(0), updateProperties(1), .. the size in use at index i has
\* been in use for (i % 5) + 1 samples, so each size serves exactly five.
C4_ResampleEveryFifth ==
    /\ (AfterSizeCall /\ ret.exc = "none") =>
            /\ 250 <= self.epsilon /\ self.epsilon <= 4000
            /\ 100 <= self.L /\ self.L <= 2000
            /\ self.c = Pow05(DivFx(self.t, self.p))
            /\ self.gamma = DivFx(self.c, self.L)
            /\ self.series = calculateRectangularSeries(self.N, self.M, self.epsilon)
            /\ self.strike = <<MulFx(500, Pow05(self.epsilon)),
                               DivFx(500, Pow05(self.epsilon))>>
    /\ loopNext >= 1 => sizeAge = ((loopNext - 1) % 5) + 1

C4_Witness ==
    /\ ValidSettings
    /\ loopNext = 6
    /\ sizeAge = 1
    /\ AfterSizeCall

\* C5: an updateProperties(i) call with i an integer that is no multiple of 5, on a
\* sampler that has a drum size, changes the strike and no other attribute.
C5_StrikeCallFrame ==
    [][(AfterStrikeCall' /\ hasattr(self, "L")) =>
            /\ DOMAIN self' = DOMAIN self
            /\ \A name \in DOMAIN self \ {"strike"} : self'[name] = self[name]]_vars

C5_Witness ==
    /\ ValidSettings
    /\ AfterStrikeCall
    /\ ret.exc = "none"
    /\ generated
    /\ self.strike # <<MulFx(500, Pow05(self.epsilon)), DivFx(500, Pow05(self.epsilon))>>

\* a sample is a number within [-1, 1]
Bounded(x) == x.t = "fin" /\ -1000 <= x.v /\ x.v <= 1000

\* C6 (as claimed): after generateWaveform on a sampler that has a drum size and a
\* finite non-positive decay constant, every sample is a number within [-1, 1],
\* whatever strike updateProperties produced.
C6_WaveformBounded ==
    (/\ ValidSettings
     /\ ret.op = "generateWaveform"
     /\ hasattr(self, "L")
     /\ self.decay.t = "fin"
     /\ self.decay.v <= 0) =>
        \A i \in DOMAIN self.waveform : Bounded(self.waveform[i])

\* C7: a sampler constructed with decay_time = infinity has the decay constant 0,
\* and the envelope exp(i * decay) is 1 at every sample index i.
C7_InfiniteDecayTime ==
    (Constructed /\ self.d_60 = PosInf) =>
        /\ self.decay = Fin(0)
        /\ \A i \in 0..self.length : Exp(FloatTimesInt(i, self.decay)) = Fin(1000)

C7_Witness ==
    /\ Constructed
    /\ self.d_60 = PosInf
    /\ self.length = 3
    /\ ret.op = "generateWaveform"
    /\ hasattr(self, "L")

\* C8 (as claimed): after every updateProperties call the labels hold one aspect
\* ratio, one drum size and two strike coordinates, both within [0, 1].
C8_StrikeLabelsInUnitSquare ==
    (DefaultSettings /\ ret.op = "updateProperties" /\ ret.exc = "none") =>
        /\ LabelsReady(self)
        /\ Len(Labels(self)["aspect_ratio"]) = 1
        /\ Len(Labels(self)["drum_size"]) = 1
        /\ Len(Labels(self)["strike_location"]) = 2
        /\ \A j \in 1..2 : /\ 0 <= Labels(self)["strike_location"][j]
                            /\ Labels(self)["strike_location"][j] <= 1000

\* C9 (as claimed): getLabels returns the empty mapping as long as generateWaveform
\* has not been called.
C9_LabelsEmptyBeforeWaveform ==
    (DefaultSettings /\ ret.op = "getLabels" /\ ~generated) => ret.val = EmptyLabels

\* C9 (amended): getLabels returns the empty mapping exactly as long as
\* updateProperties has not been called with None or a multiple of 5, and the three
\* labels of the current drum afterwards, whether or not a waveform was generated.
C9_LabelsEmptyUntilResampled ==
    ret.op = "getLabels" =>
        /\ ret.exc = "none"
        /\ ~resampled => ret.val = EmptyLabels
        /\ resampled => /\ DOMAIN ret.val = {"aspect_ratio", "drum_size", "strike_location"}
                        /\ ret.val["aspect_ratio"] = <<self.epsilon>>
                        /\ ret.val["drum_size"] = <<self.L>>
                        /\ ret.val["strike_location"] = self.strike

C9_Witness ==
    /\ ValidSettings
    /\ ret.op = "getLabels"
    /\ ~generated
    /\ resampled
    /\ DOMAIN ret.val # {}

\* C10 (as claimed): no sampler is constructed from a non-positive duration or a
\* non-positive sample rate: every sampler that exists has duration > 0,
\* sample_rate > 0 and length > 0.
C10_ConstructionRejectsNonPositive ==
    Constructed => (self.duration > 0 /\ self.sample_rate > 0 /\ self.length > 0)

\* C11: right after construction with duration > 0 and sample_rate > 0, length is
\* the least integer that is no less than duration * sample_rate, and the waveform
\* has exactly `length` samples, all of them zero.
C11_ConstructionPreallocates ==
    (ret.op = "__init__" /\ ret.exc = "none" /\ ValidSettings) =>
        /\ self.length * 1000 >= self.duration * self.sample_rate
        /\ (self.length - 1) * 1000 < self.duration * self.sample_rate
        /\ Len(self.waveform) = self.length
        /\ \A i \in 1..self.length : self.waveform[i] = Fin(0)

C11_Witness ==
    /\ ret.op = "__init__"
    /\ ret.exc = "none"
    /\ self.duration = 1250
    /\ self.sample_rate = 2
    /\ self.length = 3
    /\ self.waveform = <<Fin(0), Fin(0), Fin(0)>>

\* C15: whatever calls were made, a strike the sampler holds lies inside the
\* rectangle of the aspect ratio it holds: 0 <= x <= epsilon ** 0.5 and
\* 0 <= y <= 1 / epsilon ** 0.5.
C15_StrikeInsideCurrentRectangle ==
    (Constructed /\ hasattr(self, "strike")) =>
        /\ hasattr(self, "epsilon")
        /\ 0 <= self.strike[1]
        /\ self.strike[1] <= Pow05(self.epsilon)
        /\ 0 <= self.strike[2]
        /\ self.strike[2] <= DivFx(1000, Pow05(self.epsilon))

\* a strike off the centroid of the narrowest rectangle, drawn after a waveform
C15_Witness ==
    /\ ValidSettings
    /\ AfterStrikeCall
    /\ ret.exc = "none"
    /\ generated
    /\ self.epsilon = 250
    /\ self.strike = <<Uniform(0, 500, 750), Uniform(0, 2000, 750)>>

\* C16: the waveform always has exactly `length` samples, and after a
\* generateWaveform call on a sampler that has a drum size every one of them is the
\* sample computed from the properties the sampler holds, whatever was there before.
C16_WaveformOverwritten ==
    /\ Constructed => Len(self.waveform) = self.length
    /\ (ret.op = "generateWaveform" /\ hasattr(self, "L")) =>
            /\ ret.exc = "none"
            /\ \A i \in 1..self.length : self.waveform[i] = WaveSample(self, i - 1)

\* three samples written for a strike off the centroid, not all of them zero
C16_Witness ==
    /\ DefaultSettings
    /\ ret.op = "generateWaveform"
    /\ hasattr(self, "L")
    /\ self.length = 3
    /\ self.strike # <<MulFx(500, Pow05(self.epsilon)), DivFx(500, Pow05(self.epsilon))>>
    /\ self.waveform # Zeros(3)
    /\ \A i \in 1..3 : self.waveform[i].t = "fin"

\* C17: a generateWaveform call changes no attribute other than the waveform, and
\* repeated on a sampler that has a drum size it writes the same waveform again; a
\* getLabels call that follows it returns the aspect ratio, the drum size and the
\* strike from which the waveform the sampler holds is computed.
C17_GenerateChangesOnlyWaveform ==
    [][/\ ret'.op = "generateWaveform" =>
            /\ DOMAIN self' = DOMAIN self
            /\ \A name \in DOMAIN self \ {"waveform"} : self'[name] = self[name]
            /\ (ret.op = "generateWaveform" /\ hasattr(self, "L")) =>
                    self'.waveform = self.waveform
       /\ (ret.op = "generateWaveform" /\ ret'.op = "getLabels" /\ hasattr(self, "L")) =>
            /\ ret'.val["aspect_ratio"] = <<self'.epsilon>>
            /\ ret'.val["drum_size"] = <<self'.L>>
            /\ ret'.val["strike_location"] = self'.strike
            /\ self'.gamma = DivFx(self'.c, self'.L)
            /\ \A i \in 1..self'.length : self'.waveform[i] = WaveSample(self', i - 1)]_vars

\* labels returned for a waveform that is the one of the properties held
C17_Witness ==
    /\ DefaultSettings
    /\ generated
    /\ ret.op = "getLabels"
    /\ ret.val # EmptyLabels
    /\ self.length = 3
    /\ self.waveform # Zeros(3)
    /\ \A i \in 1..3 : self.waveform[i] = WaveSample(self, i - 1)
    /\ ret.val["strike_location"] = self.strike

\* C18 (as claimed): every sample of a waveform generated by a sampler of a positive
\* amplitude a is a number of absolute value at most a.
C18_AmplitudeBoundsWaveform ==
    (ValidSettings /\ ret.op = "generateWaveform" /\ hasattr(self, "L") /\ self.a > 0) =>
        \A i \in DOMAIN self.waveform :
            \/ self.waveform[i].t # "fin"
            \/ Abs(self.waveform[i].v) <= self.a

-----------------------------------------------------------------------------
(* geometry/ellipse.py: Ellipse and Circle.  Lengths and areas are in       *)
(* thousandths; a shape is the function from "__class__", "major", "minor"  *)
(* and "_centroid" to their values.                                         *)

\* the object __init__ receives: nothing but its class
New(cls) == [name \in {"__class__"} |-> cls]

\* the attributes Ellipse.__init__ sets; u is the value of random() behind
\* np.random.uniform(0., 1.), drawn when minor is None
EllipseInit(major, minor, centroid, u) ==
    LET mj == IF major = None THEN 1000 ELSE major[1]
        mn == IF minor = None THEN Uniform(0, 1000, u) ELSE minor[1]
    IN  [name \in {"major", "minor", "_centroid"} |->
            CASE name = "major" -> IF mj > mn THEN mj ELSE mn
              [] name = "minor" -> IF mj > mn THEN mn ELSE mj
              [] OTHER -> centroid]

\* Ellipse(major, minor, centroid)
ConstructEllipse(major, minor, centroid, u) ==
    /\ ret.op = "none"
    /\ self' = SetAttrs(New("Ellipse"), EllipseInit(major, minor, centroid, u))
    /\ ret' = Returned("__init__", None, NoValue)
    /\ UNCHANGED <<history, files>>

\* Circle(r, centroid): r is drawn when it is None, then Ellipse.__init__(r, r, centroid)
ConstructCircle(r, centroid, u) ==
    /\ ret.op = "none"
    /\ self' = LET radius == IF r = None THEN Uniform(0, 1000, u) ELSE r[1]
               IN  SetAttrs(New("Circle"),
                            EllipseInit(Some(radius), Some(radius), centroid, u))
    /\ ret' = Returned("__init__", None, NoValue)
    /\ UNCHANGED <<history, files>>

\* major * minor * pi
Area(obj) == MulFx(MulFx(obj.major, obj.minor), 3142)

\* the getter of area
areaGet ==
    /\ DOMAIN self # {}
    /\ ret' = Returned("area", None, Area(self))
    /\ UNCHANGED <<self, history, files>>

\* the axes the setter of area assigns: with epsilon = major / minor and
\* scaled_a = (a / pi) ** 0.5, major = scaled_a * epsilon and minor = scaled_a / epsilon
ScaledAxes(obj, a) ==
    LET epsilon == DivFx(obj.major, obj.minor)
        scaled_a == Pow05(DivFx(a, 3142))
    IN  [major |-> MulFx(scaled_a, epsilon), minor |-> DivFx(scaled_a, epsilon)]

\* the setter of area, on the ellipses of an aspect ratio of at most MaxRatio.  A
\* minor axis of 0 raises, as the division of Python floats does.
areaSet(a) ==
    /\ DOMAIN self # {}
    /\ self.major <= MaxRatio * self.minor \/ self.minor = 0
    /\ IF self.minor = 0
       THEN /\ ret' = Raised("area.setter", <<a>>, "ZeroDivisionError")
            /\ UNCHANGED self
       ELSE /\ self' = SetAttrs(self, ScaledAxes(self, a))
            /\ ret' = Returned("area.setter", <<a>>, NoValue)
    /\ UNCHANGED <<history, files>>

\* the getter of centroid
centroidGet ==
    /\ DOMAIN self # {}
    /\ ret' = Returned("centroid", None, self["_centroid"])
    /\ UNCHANGED <<self, history, files>>

\* the setter of centroid
centroidSet(value) ==
    /\ DOMAIN self # {}
    /\ self' = SetAttrs(self, [name \in {"_centroid"} |-> value])
    /\ ret' = Returned("centroid.setter", <<value>>, NoValue)
    /\ UNCHANGED <<history, files>>

\* round(n / d) for n >= 0 and d > 0: the nearest integer, and of two that are
\* equally near the even one
RoundDiv(n, d) ==
    LET q == n \div d
        r == n % d
    IN  IF 2 * r < d THEN q
        ELSE IF 2 * r > d THEN q + 1
        ELSE IF q % 2 = 0 THEN q ELSE q + 1

Max(a, b) == IF a > b THEN a ELSE b

\* cv2.circle with thickness -1 (the midpoint algorithm of OpenCV's Circle): at every
\* step the rows dy away from the centre are filled dx cells to either side and the
\* rows dx away dy cells to either side.  w[d] is the half width of the rows d away.
RECURSIVE CircleSpans(_, _, _, _, _, _)
CircleSpans(w, dx, dy, err, plus, minus) ==
    IF dx < dy THEN w
    ELSE LET filled == [[w EXCEPT ![dy] = Max(@, dx)] EXCEPT ![dx] = Max(@, dy)]
             e == err + plus
         IN  IF e <= 0
             THEN CircleSpans(filled, dx, dy + 1, e, plus + 2, minus)
             ELSE CircleSpans(filled, dx - 1, dy + 1, e - minus, plus + 2, minus - 2)

\* cv2.circle(np.zeros((grid_size, grid_size), 'int8'), (c, c), radius, 1, -1): the
\* rows of the mask, clipped to the grid
CircleMask(grid_size, c, radius) ==
    LET w == CircleSpans([d \in 0..radius |-> -1], radius, 0, 0, 1, 2 * radius - 1)
    IN  [y \in 1..grid_size |-> [x \in 1..grid_size |->
            IF Abs(y - 1 - c) <= radius /\ Abs(x - 1 - c) <= w[Abs(y - 1 - c)]
            THEN 1 ELSE 0]]

\* cv2.ellipse(np.zeros((grid_size, grid_size), 'int8'), (c, c), (a, b), 0, 0, 360, 1,
\* thickness=-1): OpenCV fills the polygon by which it approximates the ellipse of
\* the half axes a and b; the model fills the cells of the ellipse itself
EllipseMask(grid_size, c, a, b) ==
    [y \in 1..grid_size |-> [x \in 1..grid_size |->
        IF /\ Abs(x - 1 - c) <= a
           /\ Abs(y - 1 - c) <= b
           /\ (x - 1 - c) * (x - 1 - c) * b * b + (y - 1 - c) * (y - 1 - c) * a * a
                <= a * a * b * b
        THEN 1 ELSE 0]]

\* the mask draw returns, for major = minor or major > 0
Drawn(obj, grid_size) ==
    LET half_grid == RoundDiv(grid_size - 1, 2)
    IN  IF obj.major = obj.minor
        THEN CircleMask(grid_size, half_grid, half_grid)
        ELSE EllipseMask(grid_size, half_grid, half_grid,
                         RoundDiv(half_grid * obj.minor, obj.major))

draw(grid_size) ==
    /\ DOMAIN self # {}
    /\ ret' = IF self.major # self.minor /\ self.major = 0
              THEN Raised("draw", <<grid_size>>, "ZeroDivisionError")
              ELSE Returned("draw", <<grid_size>>, Drawn(self, grid_size))
    /\ UNCHANGED <<self, history, files>>

\* the decimals of r / d for 0 <= r < d, as an integer of `digits` digits
RECURSIVE Decimals(_, _, _)
Decimals(r, d, digits) ==
    IF digits = 0 THEN 0
    ELSE ((r * 10) \div d) * 10 ^ (digits - 1) + Decimals((r * 10) % d, d, digits - 1)

\* the float n / d for n >= 0 and d > 0, in millionths
Quotient(n, d) == (n \div d) * 1000000 + Decimals(n % d, d, 6)

\* a slip: the boundary left out
isPointInsideStrictly(obj, p) ==
    LET x == p[1] - obj["_centroid"][1]
        y == p[2] - obj["_centroid"][2]
    IN  Quotient(x * x, obj.major * obj.major) + Quotient(y * y, obj.minor * obj.minor)
            < 1000000

\* ((p[0] - centroid[0]) ** 2) / (major ** 2) + ((p[1] - centroid[1]) ** 2) / (minor ** 2) <= 1.
isPointInsideValue(obj, p) ==
    LET x == p[1] - obj["_centroid"][1]
        y == p[2] - obj["_centroid"][2]
    IN  Quotient(x * x, obj.major * obj.major) + Quotient(y * y, obj.minor * obj.minor)
            <= 1000000

\* an axis of 0 raises as a Python float does
isPointInside(p) ==
    /\ DOMAIN self # {}
    /\ ret' = IF self.major = 0 \/ self.minor = 0
              THEN Raised("isPointInside", <<p>>, "ZeroDivisionError")
              ELSE Returned("isPointInside", <<p>>, isPointInsideValue(self, p))
    /\ UNCHANGED <<self, history, files>>

\* (1. - (minor ** 2. / major ** 2.)) ** 0.5, for major > 0
Eccentricity(obj) ==
    Pow05(1000 - DivFx(MulFx(obj.minor, obj.minor), MulFx(obj.major, obj.major)))

\* major * eccentricity()
FocalDistance(obj) == MulFx(obj.major, Eccentricity(obj))

\* ((cx, cy + c), (cx, cy - c)) with c = focal_distance()
Foci(obj) ==
    <<<<obj["_centroid"][1], obj["_centroid"][2] + FocalDistance(obj)>>,
      <<obj["_centroid"][1], obj["_centroid"][2] - FocalDistance(obj)>>>>

\* a major axis of 0 raises in the division
eccentricity ==
    /\ DOMAIN self # {}
    /\ ret' = IF self.major = 0 THEN Raised("eccentricity", None, "ZeroDivisionError")
              ELSE Returned("eccentricity", None, Eccentricity(self))
    /\ UNCHANGED <<self, history, files>>

\* calls eccentricity()
focal_distance ==
    /\ DOMAIN self # {}
    /\ ret' = IF self.major = 0 THEN Raised("focal_distance", None, "ZeroDivisionError")
              ELSE Returned("focal_distance", None, FocalDistance(self))
    /\ UNCHANGED <<self, history, files>>

\* calls focal_distance()
foci ==
    /\ DOMAIN self # {}
    /\ ret' = IF self.major = 0 THEN Raised("foci", None, "ZeroDivisionError")
              ELSE Returned("foci", None, Foci(self))
    /\ UNCHANGED <<self, history, files>>

\* a slip: the radius assigned to the major axis alone
RadiusOfMajorOnly(value) == [name \in {"major"} |-> value]

\* the attributes the setter of r assigns
Radius(value) == [major |-> value, minor |-> value]

\* the getter of r, of a Circle: it asserts major == minor
rGet ==
    /\ DOMAIN self # {}
    /\ self["__class__"] = "Circle"
    /\ ret' = IF self.major # self.minor THEN Raised("r", None, "AssertionError")
              ELSE Returned("r", None, self.major)
    /\ UNCHANGED <<self, history, files>>

\* the setter of r, of a Circle
rSet(value) ==
    /\ DOMAIN self # {}
    /\ self["__class__"] = "Circle"
    /\ self' = SetAttrs(self, Radius(value))
    /\ ret' = Returned("r.setter", <<value>>, NoValue)
    /\ UNCHANGED <<history, files>>

\* the labels of an Ellipse
EllipseLabels(obj) == [major |-> <<obj.major>>, minor |-> <<obj.minor>>]

\* the labels of a Circle, read through the getter of r
CircleLabels(obj) == [r |-> <<obj.major>>, major |-> <<obj.major>>, minor |-> <<obj.minor>>]

\* Ellipse.__getLabels__, and Circle.__getLabels__ which overrides it
__getLabels__ ==
    /\ DOMAIN self # {}
    /\ ret' = IF self["__class__"] # "Circle"
              THEN Returned("__getLabels__", None, EllipseLabels(self))
              ELSE IF self.major # self.minor
              THEN Raised("__getLabels__", None, "AssertionError")
              ELSE Returned("__getLabels__", None, CircleLabels(self))
    /\ UNCHANGED <<self, history, files>>

-----------------------------------------------------------------------------
(* The specification of the shapes: one Ellipse or Circle is constructed,    *)
(* from given axes or from a random draw, and then used.  The radii are the  *)
(* ones of the unit test and 0; the areas are pi and 4 pi.                   *)

Majors == {None, Some(0), Some(1000), Some(2000)}

Minors == {None, Some(0), Some(500), Some(1000)}

Radii == {None, Some(0), Some(100), Some(250), Some(500), Some(1000)}

Centroids == {<<0, 0>>, <<1000, -500>>}

Areas == {3142, 12568}

GridSizes == 3..MaxGrid

\* points of a grid around the shapes
GridPoints == {<<x, y>> : x \in {-1000, 0, 1000, 2000}, y \in {-500, 0, 500}}

\* the centroid of obj moved along each axis, by sx and sy times the length of the
\* axis and `beyond`: the centroid, the ends of the axes, the corners of the
\* bounding box and the points a thousandth beyond them
AxisPoint(obj, sx, sy, beyond) ==
    <<obj["_centroid"][1] + sx * (obj.major + beyond),
      obj["_centroid"][2] + sy * (obj.minor + beyond)>>

NextEllipse ==
    \/ \E major \in Majors, minor \in Minors, centroid \in Centroids, u \in UnitDraws :
            ConstructEllipse(major, minor, centroid, u)
    \/ \E r \in Radii, centroid \in Centroids, u \in UnitDraws :
            ConstructCircle(r, centroid, u)
    \/ areaGet
    \/ \E a \in Areas : areaSet(a)
    \/ centroidGet
    \/ \E value \in Centroids : centroidSet(value)
    \/ \E grid_size \in GridSizes : draw(grid_size)
    \/ rGet
    \/ \E r \in Radii \ {None} : rSet(r[1])
    \/ __getLabels__
    \/ eccentricity
    \/ focal_distance
    \/ foci
    \/ \E p \in GridPoints : isPointInside(p)
    \/ \E sx \in {-1, 0, 1}, sy \in {-1, 0, 1}, beyond \in {0, 1} :
            isPointInside(AxisPoint(self, sx, sy, beyond))

SpecEllipse == Init /\ [][NextEllipse]_vars

-----------------------------------------------------------------------------
(* Properties of Ellipse and Circle. *)

\* the last call was a draw of a Circle of positive radius that returned a mask
AfterCircleDraw ==
    /\ ret.op = "draw"
    /\ ret.exc = "none"
    /\ self["__class__"] = "Circle"
    /\ self.major > 0

\* C12 (as claimed): draw(grid_size) of a Circle of positive radius, for every
\* grid_size >= 3, returns grid_size rows of grid_size cells, of which the centre
\* cell is 1 and the four corner cells are 0.
C12_CircleMaskCentreAndCorners ==
    (AfterCircleDraw /\ ret.arg[1] >= 3) =>
        LET grid_size == ret.arg[1]
            centre == ((grid_size - 1) \div 2) + 1
        IN  /\ Len(ret.val) = grid_size
            /\ \A y \in 1..grid_size : Len(ret.val[y]) = grid_size
            /\ ret.val[centre][centre] = 1
            /\ ret.val[1][1] = 0
            /\ ret.val[1][grid_size] = 0
            /\ ret.val[grid_size][1] = 0
            /\ ret.val[grid_size][grid_size] = 0

\* a / b <= c / d for a, c >= 0 and b, d > 0, without rounding (by the continued
\* fractions of the two)
RECURSIVE FracLeq(_, _, _, _)
FracLeq(a, b, c, d) ==
    IF a \div b # c \div d THEN a \div b < c \div d
    ELSE IF a % b = 0 THEN TRUE
    ELSE IF c % d = 0 THEN FALSE
    ELSE FracLeq(d, c % d, b, a % b)

\* ((px - cx) / major)^2 + ((py - cy) / minor)^2 <= 1, without rounding
OnOrInside(obj, p) ==
    LET x == p[1] - obj["_centroid"][1]
        y == p[2] - obj["_centroid"][2]
    IN  /\ x * x <= obj.major * obj.major
        /\ FracLeq(y * y, obj.minor * obj.minor,
                   obj.major * obj.major - x * x, obj.major * obj.major)

\* C13: isPointInside(p) on an ellipse of positive axes returns true exactly when
\* ((px - cx) / major)^2 + ((py - cy) / minor)^2 <= 1, and it returns true for the
\* centroid and for the four ends of the axes, wherever the centroid is.
C13_BoundaryInclusive ==
    (ret.op = "isPointInside" /\ ret.exc = "none") =>
        /\ ret.val = OnOrInside(self, ret.arg[1])
        /\ \A sx \in {-1, 0, 1}, sy \in {-1, 0, 1} :
                (sx * sy = 0 /\ ret.arg[1] = AxisPoint(self, sx, sy, 0)) => ret.val = TRUE

\* the end of the major axis of an ellipse that is no circle and not at the origin
C13_Witness ==
    /\ ret.op = "isPointInside"
    /\ ret.exc = "none"
    /\ self["_centroid"] = <<1000, -500>>
    /\ self.major > self.minor
    /\ ret.arg[1] = <<1000 + self.major, -500>>
    /\ ret.val = TRUE

\* C14 (as claimed): every Ellipse and every Circle the constructor returns has
\* major > 0 and minor > 0, whether the axes were given or drawn.
C14_NoDegenerateShape ==
    (ret.op = "__init__" /\ ret.exc = "none" /\ hasattr(self, "major")) =>
        (self.major > 0 /\ self.minor > 0)

\* the step is a call of the setter of area, with a > 0, that returned
AreaIsSet ==
    /\ ret'.op = "area.setter"
    /\ ret'.exc = "none"
    /\ ret'.arg[1] > 0
    /\ self.major > 0
    /\ self.minor > 0

\* C19 (as claimed): `ellipse.area = a` with a > 0 leaves major / minor as it was
\* (to a hundredth, the rounding of the thousandths).
C19_AreaSetterKeepsRatio ==
    [][AreaIsSet =>
            Abs(DivFx(self'.major, self'.minor) - DivFx(self.major, self.minor)) <= 10]_vars

\* C20 (as claimed): after `ellipse.area = a` with a > 0 on an ellipse of positive
\* axes the getter returns a, and the same assignment made again leaves major and
\* minor as they are; the setter of area leaves the centroid, and the setter of the
\* centroid leaves major, minor and the area.
C20_AreaRoundTrip ==
    [][/\ AreaIsSet => Abs(Area(self') - ret'.arg[1]) * 100 <= ret'.arg[1]
       /\ (AreaIsSet /\ ret.op = "area.setter" /\ ret.exc = "none" /\ ret.arg = ret'.arg) =>
            /\ Abs(self'.major - self.major) * 100 <= self.major
            /\ Abs(self'.minor - self.minor) * 100 <= self.minor
       /\ AreaIsSet => self'["_centroid"] = self["_centroid"]
       /\ ret'.op = "centroid.setter" =>
            /\ self'.major = self.major
            /\ self'.minor = self.minor
            /\ Area(self') = Area(self)]_vars

\* the distance of two points
Distance(p, q) == ISqrt((p[1] - q[1]) * (p[1] - q[1]) + (p[2] - q[2]) * (p[2] - q[2]))

\* C21 (as claimed): the two points foci() returns lie focal_distance() =
\* major * eccentricity() from the centroid, and from each of the four ends of the
\* axes, which are points of the boundary isPointInside tests, the distances to the
\* two add up to 2 * major (to a hundredth).
C21_FociOfTheSameEllipse ==
    (ret.op = "foci" /\ ret.exc = "none" /\ self.minor > 0) =>
        /\ \A j \in 1..2 :
                Distance(ret.val[j], self["_centroid"]) = MulFx(self.major, Eccentricity(self))
        /\ \A sx \in {-1, 0, 1}, sy \in {-1, 0, 1} :
                (sx * sy = 0 /\ sx # sy) =>
                    Abs(Distance(AxisPoint(self, sx, sy, 0), ret.val[1])
                        + Distance(AxisPoint(self, sx, sy, 0), ret.val[2])
                        - 2 * self.major) * 100 <= 2 * self.major

\* C22: a Circle has major = minor in every state its constructor, the setter of r,
\* the setter of area and the setter of the centroid lead to; the getter of r never
\* fails its assertion and returns that length, and the labels of the circle hold
\* the same length as r, major and minor.
C22_CircleAxesEqual ==
    /\ (Constructed /\ self["__class__"] = "Circle") => self.major = self.minor
    /\ ret.op = "r" => (ret.exc = "none" /\ ret.val = self.major /\ ret.val = self.minor)
    /\ (ret.op = "__getLabels__" /\ self["__class__"] = "Circle") =>
            /\ ret.exc = "none"
            /\ ret.val.r = ret.val.major
            /\ ret.val.r = ret.val.minor

\* a circle of radius 2, which only the setter of area (4 pi) produces, moved, and
\* its labels read
C22_Witness ==
    /\ Constructed
    /\ self["__class__"] = "Circle"
    /\ self["_centroid"] = <<1000, -500>>
    /\ ret.op = "__getLabels__"
    /\ ret.val.r = <<2000>>

-----------------------------------------------------------------------------
(* dataset/dataset.py: TorchDataset.  A tensor of one dimension is the       *)
(* sequence of its numbers; X and Y are the sequences of their rows.         *)

\* torch.zeros((n, width))
ZeroRows(n, width) == [j \in 1..n |-> [k \in 1..width |-> 0]]

\* the attributes TorchDataset.__init__ sets, for x_size = (width,)
TorchDatasetInit(dataset_size, width) ==
    [dataset_dir |-> "test/tmp",
     representation_settings |-> "representation_settings",
     sampler |-> "TestTone",
     sampler_settings |-> "sampler_settings",
     X |-> ZeroRows(dataset_size, width)]

ConstructDataset(dataset_size, width) ==
    /\ ret.op = "none"
    /\ self' = TorchDatasetInit(dataset_size, width)
    /\ ret' = Returned("__init__", <<dataset_size, width>>, NoValue)
    /\ UNCHANGED <<history, files>>

\* an index of a sequence of n rows, as Python takes it: -n <= i < n
ValidIndex(i, n) == -n <= i /\ i < n

\* the row the index i stands for (rows are counted from 1 here)
Row(i, n) == IF i < 0 THEN n + i + 1 ELSE i + 1

\* a tensor can be assigned to a row of `width` numbers when it has that many or one
Broadcastable(t, width) == Len(t) = width \/ Len(t) = 1

\* the row after the assignment of a broadcastable tensor
Broadcast(t, width) == IF Len(t) = width THEN t ELSE [k \in 1..width |-> t[1]]

\* a slip: testing an attribute the constructor sets
HasDataOnConstruction(obj) == hasattr(obj, "X")

\* hasattr(self, 'Y'), the test __getitem__ makes
HasData(obj) == hasattr(obj, "Y")

__getitem__(i) ==
    /\ DOMAIN self # {}
    /\ ret' = IF ~HasData(self)
              THEN Raised("__getitem__", <<i>>, "ValueError")
              ELSE IF ~ValidIndex(i, Len(self.X))
              THEN Raised("__getitem__", <<i>>, "IndexError")
              ELSE Returned("__getitem__", <<i>>,
                            <<self.X[Row(i, Len(self.X))], self.Y[Row(i, Len(self.X))]>>)
    /\ UNCHANGED <<self, history, files>>

__len__ ==
    /\ DOMAIN self # {}
    /\ ret' = Returned("__len__", None, Len(self.X))
    /\ UNCHANGED <<self, history, files>>

\* a slip: Y made anew at every call
LabelsMissingAlways(obj) == TRUE

\* not hasattr(self, 'Y'), the test __setitem__ makes
LabelsMissing(obj) == ~hasattr(obj, "Y")

\* Y is made first, then X[i] = x, then Y[i] = y; an index out of range
\* (IndexError) or a shape that does not fit (RuntimeError) ends the call there
__setitem__(i, x, y) ==
    /\ DOMAIN self # {}
    /\ LET n == Len(self.X)
           withY == IF LabelsMissing(self)
                    THEN SetAttrs(self, [Y |-> ZeroRows(n, Len(y))])
                    ELSE self
           withX == [withY EXCEPT !.X[Row(i, n)] = Broadcast(x, Len(self.X[Row(i, n)]))]
       IN  IF ~ValidIndex(i, n)
           THEN /\ self' = withY
                /\ ret' = Raised("__setitem__", <<i, x, y>>, "IndexError")
           ELSE IF ~Broadcastable(x, Len(self.X[Row(i, n)]))
           THEN /\ self' = withY
                /\ ret' = Raised("__setitem__", <<i, x, y>>, "RuntimeError")
           ELSE IF ~Broadcastable(y, Len(withY.Y[Row(i, n)]))
           THEN /\ self' = withX
                /\ ret' = Raised("__setitem__", <<i, x, y>>, "RuntimeError")
           ELSE /\ self' = [withX EXCEPT !.Y[Row(i, n)] =
                                            Broadcast(y, Len(withY.Y[Row(i, n)]))]
                /\ ret' = Returned("__setitem__", <<i, x, y>>, NoValue)
    /\ stored' = TRUE
    /\ UNCHANGED <<loopNext, sizeAge, resampled, generated, files>>

-----------------------------------------------------------------------------
(* The specification of the dataset: one TorchDataset of at most MaxSize     *)
(* rows of one or two numbers is constructed and then read and written, at   *)
(* indices within and beyond its size, with tensors of one and two numbers.  *)

DatasetSizes == 0..MaxSize

Widths == {1, 2}

DatasetIndices == (-MaxSize - 1)..MaxSize

DataTensors == {<<5>>, <<5, 6>>, <<7, 8>>}

LabelTensors == {<<1>>, <<1, 2>>, <<3, 4>>}

NextDataset ==
    \/ \E dataset_size \in DatasetSizes, width \in Widths : ConstructDataset(dataset_size, width)
    \/ \E i \in DatasetIndices : __getitem__(i)
    \/ __len__
    \/ \E i \in DatasetIndices, x \in DataTensors, y \in LabelTensors : __setitem__(i, x, y)

SpecDataset == Init /\ [][NextDataset]_vars

-----------------------------------------------------------------------------
(* Properties of the TorchDataset, checked under SpecDataset. *)

LabelsBefore(obj, y) ==
    IF hasattr(obj, "Y") THEN obj.Y ELSE ZeroRows(Len(obj.X), Len(y))

\* C24: __setitem__(i, x, y) writes only the row i stands for: when it
\* returns, that row of X holds x and that row of Y holds y (so that
\* __getitem__(i), which returns the two rows, returns them); whether it
\* returns or raises, every other row of X is what it was and every other row
\* of Y is what it was, or zero if Y did not exist before the call; no other
\* attribute changes; and the number of rows, which __len__ returns, is the
\* dataset_size given at construction in every state.
C24_SetItemWritesOnlyIndex ==
    [][/\ ret'.op = "__init__" => Len(self'.X) = ret'.arg[1]
       /\ DOMAIN self # {} => Len(self'.X) = Len(self.X)
       /\ ret'.op = "__len__" => ret'.val = Len(self.X)
       /\ (ret'.op = "__getitem__" /\ ret'.exc = "none") =>
              ret'.val = <<self.X[Row(ret'.arg[1], Len(self.X))],
                           self.Y[Row(ret'.arg[1], Len(self.X))]>>
       /\ ret'.op = "__setitem__" =>
              LET i == ret'.arg[1]
                  x == ret'.arg[2]
                  y == ret'.arg[3]
                  n == Len(self.X)
                  written == IF ValidIndex(i, n) THEN {Row(i, n)} ELSE {}
              IN  /\ DOMAIN self' = DOMAIN self \cup {"Y"}
                  /\ \A name \in DOMAIN self \ {"X", "Y"} : self'[name] = self[name]
                  /\ Len(self'.Y) = n
                  /\ \A j \in (1..n) \ written :
                        /\ self'.X[j] = self.X[j]
                        /\ self'.Y[j] = LabelsBefore(self, y)[j]
                  /\ ret'.exc = "none" =>
                        \A j \in written :
                            /\ self'.X[j] = Broadcast(x, Len(self.X[j]))
                            /\ self'.Y[j] = Broadcast(y, Len(LabelsBefore(self, y)[j]))
                            /\ (Len(x) = Len(self.X[j]) => self'.X[j] = x)
                            /\ (Len(y) = Len(LabelsBefore(self, y)[j]) => self'.Y[j] = y)]_vars

\* a second item has been stored next to the first, which is still there
C24_Witness ==
    /\ ret.op = "__setitem__"
    /\ ret.exc = "none"
    /\ ret.arg = <<1, <<5, 6>>, <<1, 2>>>>
    /\ Len(self.X) = 2
    /\ self.X = <<<<7, 8>>, <<5, 6>>>>
    /\ self.Y = <<<<3, 4>>, <<1, 2>>>>

-----------------------------------------------------------------------------
(* src/settings.py and src/dataset.py: the project settings and the dataset  *)
(* of the project.  `files` is the folder data: file name -> contents, the   *)
(* contents of metadata.json being the object json reads from it.            *)

\* the configurable object
settings == [DATASET_SIZE |-> 10, DATA_LENGTH |-> 5000, SAMPLE_RATE |-> 44100]

\* what a call does: how it ends, what it returns and the folder it leaves
Outcome(exc, val, folder) == [exc |-> exc, val |-> val, folder |-> folder]

\* the folder after every file but .gitignore is removed
Cleared(folder) == [path \in DOMAIN folder \cap {".gitignore"} |-> folder[path]]

\* the folder after a file is written
Written(folder, path, contents) ==
    [q \in DOMAIN folder \cup {path} |-> IF q = path THEN contents ELSE folder[q]]

\* generateDataset(): the metadata is built from the settings first, and a
\* key the settings do not have raises KeyError there, before any file is
\* touched; the loop that is to generate the samples adds nothing to the data
GenerateDataset(folder) ==
    IF "NUM_OF_TARGETS" \notin DOMAIN settings \/ "SAMPLE_RATE" \notin DOMAIN settings
    THEN Outcome("KeyError", NoValue, folder)
    ELSE LET metadata == [NUM_OF_TARGETS |-> settings["NUM_OF_TARGETS"],
                          SAMPLE_RATE |-> settings["SAMPLE_RATE"],
                          data |-> <<>>]
         IN  Outcome("none", metadata.data,
                     Written(Cleared(folder), "metadata.json", metadata))

generateDataset ==
    /\ ret' = [op |-> "generateDataset", arg |-> None,
               exc |-> GenerateDataset(files).exc, val |-> GenerateDataset(files).val]
    /\ files' = GenerateDataset(files).folder
    /\ UNCHANGED <<self, history>>

\* data[: n]
Prefix(data, n) == SubSeq(data, 1, IF n < Len(data) THEN n ELSE Len(data))

\* loadDataset(): only FileNotFoundError and DatasetIncompatible lead to
\* generateDataset(); the KeyError of a key the settings do not have, raised
\* by the comparison with the stored metadata, leaves the function
LoadDataset(folder) ==
    IF "metadata.json" \notin DOMAIN folder
    THEN GenerateDataset(folder)
    ELSE LET metadata == folder["metadata.json"]
         IN  IF "NUM_OF_TARGETS" \notin DOMAIN settings
             THEN Outcome("KeyError", NoValue, folder)
             ELSE IF \/ metadata.NUM_OF_TARGETS < settings["NUM_OF_TARGETS"]
                     \/ metadata.SAMPLE_RATE # settings["SAMPLE_RATE"]
             THEN GenerateDataset(folder)
             ELSE Outcome("none", Prefix(metadata.data, settings["NUM_OF_TARGETS"]), folder)

loadDataset ==
    /\ ret' = [op |-> "loadDataset", arg |-> None,
               exc |-> LoadDataset(files).exc, val |-> LoadDataset(files).val]
    /\ files' = LoadDataset(files).folder
    /\ UNCHANGED <<self, history>>

-----------------------------------------------------------------------------
(* The specification of the project's dataset: the folder data holds any of  *)
(* .gitignore and two audio files, and no metadata.json or one of a dataset  *)
(* smaller than, as large as or larger than DATASET_SIZE, at the project's   *)
(* sample rate or another; then the dataset is loaded or generated.          *)

GitIgnore == [text |-> "*"]

AudioFile == [nchannels |-> 1]

Sample(k) == [filepath |-> k, labels |-> <<>>]

StoredMetadata ==
    {[NUM_OF_TARGETS |-> n, SAMPLE_RATE |-> sr, data |-> [k \in 1..n |-> Sample(k)]] :
        n \in {5, 10, 20}, sr \in {44100, 48000}}

OtherFiles == {".gitignore", "0.wav", "1.wav"}

DataFolders ==
    {[path \in kept |-> IF path = ".gitignore" THEN GitIgnore ELSE AudioFile] :
        kept \in SUBSET OtherFiles}
    \cup {Written([path \in kept |-> IF path = ".gitignore" THEN GitIgnore ELSE AudioFile],
                  "metadata.json", metadata) :
              kept \in SUBSET OtherFiles, metadata \in StoredMetadata}

InitLoad ==
    /\ self = NoObject
    /\ ret = [op |-> "none", arg |-> None, exc |-> "none", val |-> NoValue]
    /\ loopNext = 0
    /\ sizeAge = 0
    /\ resampled = FALSE
    /\ generated = FALSE
    /\ stored = FALSE
    /\ files \in DataFolders

NextLoad ==
    \/ loadDataset
    \/ generateDataset

SpecLoad == InitLoad /\ [][NextLoad]_vars

-----------------------------------------------------------------------------
(* Properties of the project's dataset, checked under SpecLoad. *)

\* the number of targets of the project, if the settings name one
HasTargets == "NUM_OF_TARGETS" \in DOMAIN settings

\* a stored dataset that can be reused
Compatible(folder) ==
    /\ "metadata.json" \in DOMAIN folder
    /\ HasTargets
    /\ folder["metadata.json"].SAMPLE_RATE = settings["SAMPLE_RATE"]
    /\ folder["metadata.json"].NUM_OF_TARGETS >= settings["NUM_OF_TARGETS"]

\* C25: loadDataset() returns; where data/metadata.json is stored with the
\* sample rate of the settings and at least as many targets, it returns the
\* first NUM_OF_TARGETS (of the settings) stored samples and leaves every file
\* as it is; otherwise it leaves .gitignore and a new metadata.json and no
\* other file, and returns the samples of that metadata.
C25_LoadReusesCompatible ==
    [][ret'.op = "loadDataset" =>
          /\ ret'.exc = "none"
          /\ Compatible(files) =>
                /\ files' = files
                /\ ret'.val = Prefix(files["metadata.json"].data, settings["NUM_OF_TARGETS"])
          /\ ~Compatible(files) =>
                /\ DOMAIN files' = (DOMAIN files \cap {".gitignore"}) \cup {"metadata.json"}
                /\ \A path \in DOMAIN files \cap {".gitignore"} : files'[path] = files[path]
                /\ ret'.val = files'["metadata.json"].data]_vars

-----------------------------------------------------------------------------
(* sampler/audio_sampler.py: the AudioSampler that exports its waveform.  An *)
(* integer beyond 32 bits is kept as two digits <<hi, lo>> of base 65536, a  *)
(* .wav file as its parameters and the sequence of its frames, each frame    *)
(* the sequence of its bytes.                                                *)

\* the attributes AudioSampler.__init__ sets
SamplerInit(duration, sr) ==
    [duration |-> duration,
     sr |-> sr,
     length |-> Ceil(duration * sr),
     waveform |-> Zeros(Ceil(duration * sr))]

\* a subclass of AudioSampler is constructed
ConstructSampler(duration, sr) ==
    /\ ret.op = "none"
    /\ IF Ceil(duration * sr) < 0
       THEN \* np.zeros: negative dimensions are not allowed
            /\ ret' = Raised("__init__", <<duration, sr>>, "ValueError")
            /\ UNCHANGED <<self, history, files>>
       ELSE /\ self' = SamplerInit(duration, sr)
            /\ ret' = Returned("__init__", <<duration, sr>>, NoValue)
            /\ UNCHANGED <<history, files>>

\* the abstract generateWaveform, which a subclass uses to set self.waveform
setWaveform(samples) ==
    /\ DOMAIN self # {}
    /\ Len(samples) = self.length
    /\ self' = SetAttrs(self, [waveform |-> samples])
    /\ ret' = Returned("generateWaveform", None, NoValue)
    /\ generated' = TRUE
    /\ UNCHANGED <<loopNext, sizeAge, resampled, stored, files>>

\* 2 ** (bit_depth - 1) - 1 in digits of base 65536
FullScale(bit_depth) ==
    IF bit_depth <= 16 THEN <<0, 2 ^ (bit_depth - 1) - 1>>
    ELSE <<2 ^ (bit_depth - 17) - 1, 65535>>

\* abs(int(s * (2 ** (bit_depth - 1) - 1))) in digits of base 65536, for a
\* sample s in thousandths; int() drops the fraction
Magnitude(s, bit_depth) ==
    LET A == Abs(s) * FullScale(bit_depth)[1]
        B == Abs(s) * FullScale(bit_depth)[2]
        low == ((A % 1000) * 65536 + B) \div 1000
    IN  <<A \div 1000 + low \div 65536, low % 65536>>

\* the eight bytes of a natural number below 2 ** 32, the lowest first
Unsigned8(digits) ==
    <<digits[2] % 256, digits[2] \div 256, digits[1] % 256, digits[1] \div 256, 0, 0, 0, 0>>

Invert(bytes) == [k \in DOMAIN bytes |-> 255 - bytes[k]]

RECURSIVE Increment(_)
Increment(bytes) ==
    IF bytes = <<>> THEN <<>>
    ELSE IF Head(bytes) = 255 THEN <<0>> \o Increment(Tail(bytes))
    ELSE <<Head(bytes) + 1>> \o Tail(bytes)

\* struct.pack('<q', int(s * (2 ** (bit_depth - 1) - 1))): eight bytes, the
\* lowest first, a negative number in two's complement
Pack(s, bit_depth) ==
    IF s < 0 /\ Magnitude(s, bit_depth) # <<0, 0>>
    THEN Increment(Invert(Unsigned8(Magnitude(s, bit_depth))))
    ELSE Unsigned8(Magnitude(s, bit_depth))

\* the frame written for a sample: byte[0:bit_depth // 8]
Frame(s, bit_depth) == SubSeq(Pack(s, bit_depth), 1, bit_depth \div 8)

\* the file wave.open has made when a parameter is refused
EmptyFile == [size |-> 0]

\* export(absolutePath, bit_depth): wave.open makes the file; setframerate
\* raises wave.Error for a rate that is not positive, and the file stays empty
export(absolutePath, bit_depth) ==
    /\ DOMAIN self # {}
    /\ IF self.sr <= 0
       THEN /\ files' = [q \in DOMAIN files \cup {absolutePath} |->
                            IF q = absolutePath THEN EmptyFile ELSE files[q]]
            /\ ret' = Raised("export", <<absolutePath, bit_depth>>, "wave.Error")
       ELSE /\ files' = [q \in DOMAIN files \cup {absolutePath} |->
                            IF q = absolutePath
                            THEN [nchannels |-> 1,
                                  sampwidth |-> bit_depth \div 8,
                                  framerate |-> self.sr,
                                  frames |-> [k \in DOMAIN self.waveform |->
                                                 Frame(self.waveform[k].v, bit_depth)]]
                            ELSE files[q]]
            /\ ret' = Returned("export", <<absolutePath, bit_depth>>, NoValue)
    /\ UNCHANGED <<self, history>>

-----------------------------------------------------------------------------
(* The specification of the export: a sampler of 0.5 or 1 second, or of -1   *)
(* second, at a sample rate of -2, 0 or 2 is constructed, which gives 0, 1   *)
(* or 2 samples; its waveform is set to samples within [-1, 1] and to        *)
(* samples of +-2, and exported at each bit depth.                           *)

ExportDurations == {-1000, 500, 1000}

ExportRates == {-2, 0, 2}

ExportSamples == {-2000, -1000, -500, 0, 250, 1000, 2000}

ExportWaveforms == UNION {[1..n -> {Fin(v) : v \in ExportSamples}] : n \in 0..2}

BitDepths == {16, 24, 32}

ExportPaths == {"0.wav"}

NextExport ==
    \/ \E duration \in ExportDurations, sr \in ExportRates : ConstructSampler(duration, sr)
    \/ \E samples \in ExportWaveforms : setWaveform(samples)
    \/ \E absolutePath \in ExportPaths, bit_depth \in BitDepths : export(absolutePath, bit_depth)

SpecExport == Init /\ [][NextExport]_vars

-----------------------------------------------------------------------------
(* Properties of the export, checked under SpecExport. *)

\* the number a frame stands for: little-endian two's complement
RECURSIVE UnsignedValue(_)
UnsignedValue(bytes) ==
    IF bytes = <<>> THEN 0 ELSE Head(bytes) + 256 * UnsignedValue(Tail(bytes))

SignedValue(bytes) ==
    IF bytes[Len(bytes)] >= 128
    THEN -UnsignedValue(Increment(Invert(bytes)))
    ELSE UnsignedValue(bytes)

\* the frame extended to eight bytes by its sign
SignExtended(bytes) ==
    [k \in 1..8 |-> IF k <= Len(bytes) THEN bytes[k]
                    ELSE IF bytes[Len(bytes)] >= 128 THEN 255 ELSE 0]

\* int(s * (2 ** (bit_depth - 1) - 1)) for a sample within [-1, 1]
ScaledSample(s, bit_depth) ==
    Sign(s) * (Magnitude(s, bit_depth)[1] * 65536 + Magnitude(s, bit_depth)[2])

\* the last call was an export of a waveform within [-1, 1]
AfterExport ==
    /\ ret.op = "export"
    /\ \A k \in DOMAIN self.waveform : Abs(self.waveform[k].v) <= 1000

\* the file of the last export holds the waveform faithfully
Exported ==
    /\ ret.exc = "none"
    /\ ret.arg[1] \in DOMAIN files
    /\ LET wav == files[ret.arg[1]]
           bit_depth == ret.arg[2]
       IN  /\ wav.nchannels = 1
           /\ wav.sampwidth * 8 = bit_depth
           /\ wav.framerate = self.sr
           /\ Len(wav.frames) = self.length
           /\ \A k \in DOMAIN wav.frames :
                 /\ Len(wav.frames[k]) * 8 = bit_depth
                 /\ SignedValue(wav.frames[k]) = ScaledSample(self.waveform[k].v, bit_depth)
                 /\ SignExtended(wav.frames[k]) = Pack(self.waveform[k].v, bit_depth)

\* C26: after export(path, bit_depth) of a waveform whose samples lie within
\* [-1, 1], the file holds `length` mono frames of bit_depth / 8 bytes at the
\* sample rate of the sampler, and each frame is the little-endian two's
\* complement of int(s * (2 ** (bit_depth - 1) - 1)) for its sample s, the
\* eight packed bytes being the frame extended by its sign.
C26_ExportFaithful == AfterExport => Exported

\* the same of a sampler whose sample rate is positive
ExportFaithfulAtPositiveRate == (AfterExport /\ self.sr > 0) => Exported

====
